---- MODULE Spec2Model ----
(***************************************************************************)
(* Job store, inference trigger endpoint and stage orchestration of the    *)
(* neurosymbolic object detection backend.                                 *)
(*                                                                         *)
(* One job is modelled (every job has its own JSON file, jobs do not       *)
(* interact).  The job file is the shared state; get_job reads it and      *)
(* update_job reads it, changes the given fields and writes it back        *)
(* without any lock, so every read and every write of the file is one      *)
(* step of the process doing it (requests served by several workers over   *)
(* the same jobs directory, background threads, direct storage clients).   *)
(*                                                                         *)
(* Specifications:                                                         *)
(*   Spec        the job record under the storage service, the /predict    *)
(*               endpoint and its background threads;                      *)
(*   SpecService one call of InferenceService.run_inference on a job, and  *)
(*               GET /jobs/{job_id}/results during and after it;           *)
(*   SpecSymbolic the adjustment of one image's detections: the pair loop  *)
(*               of _apply_modifiers, then the refined file and the report;*)
(*   SpecChain   the same on longer lists of overlapping detections;       *)
(*   SpecParse   the parsing of one prediction file;                       *)
(*   SpecNms     pre_filter_with_nms on the detections of one image.       *)
(***************************************************************************)
EXTENDS Integers, Sequences, FiniteSets, TLC

\* ------------------------------------------------------------------ bounds
MaxReq == 2          \* concurrent /predict requests for the job
MaxUploads == 2      \* save_upload calls for the job
MaxImages == 2       \* files of the job seen by one service run
MaxStems == 2        \* distinct file name stems among the job's files

Req == 1..MaxReq
Upl == 1..MaxUploads
Img == 1..MaxImages
Stem == 1..MaxStems

\* ------------------------------------------------------------- job record
None == "None"
NoVal == -1

\* progress = {} as written by create_job
EmptyProgress ==
  [stage |-> None, percentage |-> NoVal, images_processed |-> NoVal, total_images |-> NoVal]

Progress(stage, percentage, images_processed, total_images) ==
  [stage |-> stage, percentage |-> percentage,
   images_processed |-> images_processed, total_images |-> total_images]

\* the dict a stage returns, or the dict run_inference stores for it
SymStats(skipped, reason, error) ==
  [present |-> TRUE, skipped |-> skipped, reason |-> reason, error |-> error]

NoSymStats == [present |-> FALSE, skipped |-> FALSE, reason |-> None, error |-> FALSE]

\* no inference_stats key in the record
NoStats == [nms |-> None, symbolic_reasoning |-> NoSymStats]

\* no file <job_id>.json in the jobs directory
NoJob ==
  [exists |-> FALSE, status |-> None, config |-> NoVal, files |-> <<>>,
   progress |-> EmptyProgress, error |-> None, inference_stats |-> NoStats,
   updated_at |-> 0]

VARIABLES
  job,        \* content of the job's JSON file
  clock,      \* number of update_job writes so far (source of updated_at)
  cpc,        \* position of the upload collaborator
  csnap,      \* record prepared by the collaborator's update_job
  upc,        \* position of every save_upload call
  usnap,      \* job_data read by save_upload / record prepared by its update_job
  rpc,        \* position of every trigger_inference request
  rsnap,      \* record prepared by the request's update_job
  resp,       \* response of every request
  tpc,        \* position of the background thread started by every request
  tsnap,      \* record prepared by the thread's update_job
  spc,        \* position of the direct call (service run, adjustment, parser)
  sv          \* locals and artifacts of the direct call

vars == <<job, clock, cpc, csnap, upc, usnap, rpc, rsnap, resp, tpc, tsnap, spc, sv>>

\* StorageService.get_job: the file content, or None when the file is absent
get_job == job

\* StorageService.create_job: the record json.dump'ed for a new job
create_job(config) ==
  [exists |-> TRUE, status |-> "queued", config |-> config, files |-> <<>>,
   progress |-> EmptyProgress, error |-> None, inference_stats |-> NoStats,
   updated_at |-> 0]

\* StorageService.update_job after its get_job returned job_data: kw holds the
\* arguments that were given (status, progress, error when not None, and the
\* keyword fields); every other field keeps the value that was read, and
\* updated_at becomes now.  Where its read and its write are separate steps,
\* the record is prepared at the read (with updated_at 0) and stamped with
\* the time at the write.
update_job(job_data, kw, now) ==
  LET val(f) == IF f \in DOMAIN kw THEN kw[f] ELSE job_data[f]
  IN [exists |-> TRUE,
      status |-> val("status"),
      config |-> val("config"),
      files |-> val("files"),
      progress |-> val("progress"),
      error |-> val("error"),
      inference_stats |-> val("inference_stats"),
      updated_at |-> now]

\* ---------------------------------------------- the upload collaborator
\* The collaborator that supplies job.files works on the job in the order of
\* upload_images: the job is created, marked 'uploaded', and then its files
\* are saved one after the other with save_upload.  create_job takes only
\* config, so a new job is always 'queued' with no files, and the status
\* 'uploaded' is written with update_job(job_id, status="uploaded").
client_create ==
  /\ cpc = "new"
  /\ ~job.exists
  /\ job' = create_job(0)
  /\ cpc' = "created"
  /\ UNCHANGED <<clock, csnap, upc, usnap, rpc, rsnap, resp, tpc, tsnap, spc, sv>>

\* update_job(job_id, status="uploaded"): the get_job inside update_job,
client_mark_read ==
  /\ cpc = "created"
  /\ csnap' = update_job(get_job, [status |-> "uploaded"], 0)
  /\ cpc' = "marking"
  /\ UNCHANGED <<job, clock, upc, usnap, rpc, rsnap, resp, tpc, tsnap, spc, sv>>

\* then the write of the changed record.
client_mark_write ==
  /\ cpc = "marking"
  /\ job' = [csnap EXCEPT !.updated_at = clock + 1]
  /\ clock' = clock + 1
  /\ cpc' = "saving"
  /\ UNCHANGED <<csnap, upc, usnap, rpc, rsnap, resp, tpc, tsnap, spc, sv>>

\* save_upload, "Update job's file list": job_data = get_job(job_id); when
\* the job exists the new file record is appended to job_data["files"].
save_upload_read(u) ==
  /\ cpc = "saving"
  /\ upc[u] = "idle"
  /\ \A v \in Upl : v < u => upc[v] \in {"done", "nojob"}
  /\ IF get_job.exists
       THEN /\ usnap' = [usnap EXCEPT ![u] = [get_job EXCEPT !.files = Append(@, u)]]
            /\ upc' = [upc EXCEPT ![u] = "appended"]
       ELSE /\ upc' = [upc EXCEPT ![u] = "nojob"]
            /\ UNCHANGED usnap
  /\ UNCHANGED <<job, clock, cpc, csnap, rpc, rsnap, resp, tpc, tsnap, spc, sv>>

\* save_upload -> update_job(job_id, files=job_data["files"]): its get_job;
\* the fields of the fresh record are kept, files comes from the first read.
save_upload_update_read(u) ==
  /\ upc[u] = "appended"
  /\ usnap' = [usnap EXCEPT ![u] = update_job(get_job, [files |-> usnap[u].files], 0)]
  /\ upc' = [upc EXCEPT ![u] = "writing"]
  /\ UNCHANGED <<job, clock, cpc, csnap, rpc, rsnap, resp, tpc, tsnap, spc, sv>>

\* save_upload -> update_job: updated_at is set and the file is written.
save_upload_update_write(u) ==
  /\ upc[u] = "writing"
  /\ job' = [usnap[u] EXCEPT !.updated_at = clock + 1]
  /\ clock' = clock + 1
  /\ upc' = [upc EXCEPT ![u] = "done"]
  /\ UNCHANGED <<cpc, csnap, usnap, rpc, rsnap, resp, tpc, tsnap, spc, sv>>

\* ------------------------------------------------------ POST /predict
\* config.model_dump() of a request (the requests carry the same configuration)
RequestConfig == 1

\* the status check dropped: any job with files passes
validate_no_status_check(job_data) ==
  IF ~job_data.exists THEN "JOB_NOT_FOUND"
  ELSE IF Len(job_data.files) = 0 THEN "NO_FILES"
  ELSE "ok"

\* The three validations of trigger_inference on the record get_job returned:
\* the error code of the HTTPException raised, or "ok".
validate(job_data) ==
  IF ~job_data.exists THEN "JOB_NOT_FOUND"
  ELSE IF Len(job_data.files) = 0 THEN "NO_FILES"
  ELSE IF job_data.status # "uploaded" THEN "INVALID_STATUS"
  ELSE "ok"

\* trigger_inference up to the status check: a failed validation raises the
\* HTTPException, nothing has been written.
trigger_inference_validate(r) ==
  /\ rpc[r] = "idle"
  /\ LET code == validate(get_job) IN
       IF code = "ok"
         THEN /\ rpc' = [rpc EXCEPT ![r] = "validated"]
              /\ UNCHANGED resp
         ELSE /\ rpc' = [rpc EXCEPT ![r] = "done"]
              /\ resp' = [resp EXCEPT ![r] = code]
  /\ UNCHANGED <<job, clock, cpc, csnap, upc, usnap, rsnap, tpc, tsnap, spc, sv>>

\* trigger_inference -> update_job(status="processing", config, progress):
\* the get_job inside update_job.
trigger_inference_update_read(r) ==
  /\ rpc[r] = "validated"
  /\ rsnap' = [rsnap EXCEPT ![r] =
                update_job(get_job,
                           [status |-> "processing", config |-> RequestConfig,
                            progress |-> Progress("queued", NoVal, NoVal, NoVal)],
                           0)]
  /\ rpc' = [rpc EXCEPT ![r] = "updating"]
  /\ UNCHANGED <<job, clock, cpc, csnap, upc, usnap, resp, tpc, tsnap, spc, sv>>

\* trigger_inference: update_job writes the record, the background thread is
\* started and 202 is returned.
trigger_inference_update_write(r) ==
  /\ rpc[r] = "updating"
  /\ job' = [rsnap[r] EXCEPT !.updated_at = clock + 1]
  /\ clock' = clock + 1
  /\ tpc' = [tpc EXCEPT ![r] = "start"]
  /\ resp' = [resp EXCEPT ![r] = "accepted"]
  /\ rpc' = [rpc EXCEPT ![r] = "done"]
  /\ UNCHANGED <<cpc, csnap, upc, usnap, rsnap, tsnap, spc, sv>>

\* ------------------------------------- background thread: run_inference
\* run_inference calls inference_service.run_inference(...,
\* visualization_config=visualization_config); InferenceService.run_inference
\* has no such parameter, the call raises TypeError before the service body
\* runs, which the "except Exception" handler catches.  The handler calls
\* update_job(status="failed", error=..., progress=...): its get_job.
run_inference_failed_read(r) ==
  /\ tpc[r] = "start"
  /\ tsnap' = [tsnap EXCEPT ![r] =
                update_job(get_job,
                           [status |-> "failed", error |-> "Unexpected error during inference",
                            progress |-> Progress("failed", NoVal, NoVal, NoVal)],
                           0)]
  /\ tpc' = [tpc EXCEPT ![r] = "failing"]
  /\ UNCHANGED <<job, clock, cpc, csnap, upc, usnap, rpc, rsnap, resp, spc, sv>>

\* the handler's update_job writes the record; the thread ends.
run_inference_failed_write(r) ==
  /\ tpc[r] = "failing"
  /\ job' = [tsnap[r] EXCEPT !.updated_at = clock + 1]
  /\ clock' = clock + 1
  /\ tpc' = [tpc EXCEPT ![r] = "done"]
  /\ UNCHANGED <<cpc, csnap, upc, usnap, rpc, rsnap, resp, tsnap, spc, sv>>

\* --------------------------------------------------------- specification
SvOff == [on |-> FALSE]

Init ==
  /\ job = NoJob
  /\ clock = 0
  /\ cpc = "new"
  /\ csnap = NoJob
  /\ upc = [u \in Upl |-> "idle"]
  /\ usnap = [u \in Upl |-> NoJob]
  /\ rpc = [r \in Req |-> "idle"]
  /\ rsnap = [r \in Req |-> NoJob]
  /\ resp = [r \in Req |-> "none"]
  /\ tpc = [r \in Req |-> "none"]
  /\ tsnap = [r \in Req |-> NoJob]
  /\ spc = "off"
  /\ sv = SvOff

Next ==
  \/ client_create
  \/ client_mark_read
  \/ client_mark_write
  \/ \E u \in Upl : save_upload_read(u)
  \/ \E u \in Upl : save_upload_update_read(u)
  \/ \E u \in Upl : save_upload_update_write(u)
  \/ \E r \in Req : trigger_inference_validate(r)
  \/ \E r \in Req : trigger_inference_update_read(r)
  \/ \E r \in Req : trigger_inference_update_write(r)
  \/ \E r \in Req : run_inference_failed_read(r)
  \/ \E r \in Req : run_inference_failed_write(r)

Spec == Init /\ [][Next]_vars

\* every request handler, thread and collaborator that can take a step is
\* eventually scheduled
FairSpec == Spec /\ WF_vars(Next)

\* ------------------------------------- InferenceService.run_inference
\* A job as trigger_inference leaves it, with n files.
ProcessingJob(n) ==
  update_job([create_job(0) EXCEPT !.files = [i \in 1..n |-> i]],
             [status |-> "processing", config |-> RequestConfig,
              progress |-> Progress("queued", NoVal, NoVal, NoVal)], 1)

NoFiles == [s \in Stem |-> "absent"]

\* number of times each file of a results directory was opened for writing
NoWrites == [s \in Stem |-> 0]

\* int(10 + (idx / total_images) * 80)
percentage(idx, total_images) == 10 + ((idx * 80) \div total_images)

\* the except clause that ends run_inference: raise InferenceError
service_raise(reason) ==
  /\ spc' = "done"
  /\ sv' = [sv EXCEPT !.result = "raised", !.raised = reason]

\* run_inference up to the image loop: the 'loading_model' update, load_model
\* (which may raise InferenceError) and the check that the job has files.
service_start ==
  /\ spc = "start"
  /\ job' = update_job(get_job,
                       [status |-> "processing",
                        progress |-> Progress("loading_model", 5, NoVal, NoVal)],
                       clock + 1)
  /\ clock' = clock + 1
  /\ \E loaded \in BOOLEAN :
       IF ~loaded THEN service_raise("load_model")
       ELSE IF Len(job.files) = 0 THEN service_raise("no_files")
       ELSE /\ spc' = "images"
            /\ sv' = [sv EXCEPT !.total_images = Len(job.files)]
  /\ UNCHANGED <<cpc, csnap, upc, usnap, rpc, rsnap, resp, tpc, tsnap>>

\* One iteration of "for idx, file_info in enumerate(uploaded_files)": a file
\* missing on disk is skipped before the progress update; otherwise progress
\* is written, then either the prediction raises (logged, continue) or the
\* raw prediction file <stem>.txt is written with the detections found.
service_image ==
  /\ spc = "images"
  /\ sv.idx < sv.total_images
  /\ LET idx == sv.idx + 1 IN
     \E present \in BOOLEAN, raises \in BOOLEAN, found \in {"empty", "dets"} :
       /\ (~present => ~raises /\ found = "empty")
       /\ (raises => found = "empty")
       /\ IF ~present
            THEN /\ sv' = [sv EXCEPT !.idx = idx, !.not_found = @ \cup {idx}]
                 /\ UNCHANGED <<job, clock>>
            ELSE /\ job' = update_job(get_job,
                                      [progress |-> Progress("inference",
                                                             percentage(idx, sv.total_images),
                                                             idx, sv.total_images)],
                                      clock + 1)
                 /\ clock' = clock + 1
                 /\ IF raises
                      THEN sv' = [sv EXCEPT !.idx = idx,
                                            !.image_failed = @ \cup {idx}]
                      ELSE sv' = [sv EXCEPT !.idx = idx,
                                            !.processed_count = @ + 1,
                                            !.saved = @ \cup {idx},
                                            !.raw[sv.stem[idx]] = found,
                                            !.raw_writes[sv.stem[idx]] = @ + 1]
  /\ UNCHANGED <<spc, cpc, csnap, upc, usnap, rpc, rsnap, resp, tpc, tsnap>>

\* parse_predictions_for_nms / _parse_predictions: the images of a directory
\* that have at least one detection (an empty file yields no entry)
parsed(dir) == {s \in Stem : dir[s] = "dets"}

\* the NMS stage's exception not caught by run_inference: it reaches the
\* outer except clause and run_inference raises
service_nms_propagates ==
  /\ spc = "images"
  /\ sv.idx = sv.total_images
  /\ job' = update_job(get_job,
                       [progress |-> Progress("nms_filtering", 92, NoVal, NoVal)],
                       clock + 1)
  /\ clock' = clock + 1
  /\ \E failing \in {0} \cup parsed(sv.raw) :
       IF parsed(sv.raw) = {}
         THEN spc' = "symbolic" /\ sv' = [sv EXCEPT !.nms_stats = "empty"]
       ELSE IF failing # 0
         THEN spc' = "done" /\ sv' = [sv EXCEPT !.nms_stats = "error", !.nms_failed = failing,
                                                !.result = "raised", !.raised = "nms"]
       ELSE spc' = "symbolic" /\
            sv' = [sv EXCEPT !.nms_stats = "ok",
                             !.nms = [s \in Stem |-> IF s \in parsed(sv.raw)
                                                       THEN "dets" ELSE "absent"],
                             !.nms_writes = [s \in Stem |-> IF s \in parsed(sv.raw)
                                                              THEN 1 ELSE 0]]
  /\ UNCHANGED <<cpc, csnap, upc, usnap, rpc, rsnap, resp, tpc, tsnap>>

\* apply_nms_post_processing as called by run_inference after the loop: the
\* 'nms_filtering' update; no raw predictions returns zero statistics;
\* otherwise every image is filtered in memory and save_predictions_to_file
\* writes the nms files after the loop.  An exception on one image leaves the
\* loop through "except Exception -> raise InferenceError", which
\* run_inference catches ("Don't fail the entire job if NMS fails").
service_nms ==
  /\ spc = "images"
  /\ sv.idx = sv.total_images
  /\ job' = update_job(get_job,
                       [progress |-> Progress("nms_filtering", 92, NoVal, NoVal)],
                       clock + 1)
  /\ clock' = clock + 1
  /\ \E failing \in {0} \cup parsed(sv.raw) :
       IF parsed(sv.raw) = {}
         THEN sv' = [sv EXCEPT !.nms_stats = "empty"]
       ELSE IF failing # 0
         THEN sv' = [sv EXCEPT !.nms_stats = "error", !.nms_failed = failing]
       ELSE sv' = [sv EXCEPT !.nms_stats = "ok",
                             !.nms = [s \in Stem |-> IF s \in parsed(sv.raw)
                                                       THEN "dets" ELSE "absent"],
                             !.nms_writes = [s \in Stem |-> IF s \in parsed(sv.raw)
                                                              THEN 1 ELSE 0]]
  /\ spc' = "symbolic"
  /\ UNCHANGED <<cpc, csnap, upc, usnap, rpc, rsnap, resp, tpc, tsnap>>

\* the "if not modifier_map" return dropped: an empty rule table goes on to
\* the images like a loaded one
apply_symbolic_reasoning_no_empty_check(run, failing, log) ==
  IF run.rules = "missing"
    THEN [run EXCEPT !.symbolic_stats = SymStats(TRUE, "Rules file not found", FALSE)]
  ELSE IF run.rules = "unloadable"
    THEN [run EXCEPT !.symbolic_stats = SymStats(TRUE, "Error during processing", TRUE)]
  ELSE IF parsed(run.nms) = {}
    THEN [run EXCEPT !.symbolic_stats = SymStats(FALSE, None, FALSE)]
  ELSE [run EXCEPT !.symbolic_stats = SymStats(FALSE, None, FALSE),
                   !.refined = [s \in Stem |-> IF s \in parsed(run.nms)
                                                  THEN "dets" ELSE "absent"],
                   !.refined_writes = [s \in Stem |-> IF s \in parsed(run.nms)
                                                         THEN 1 ELSE 0]]

\* apply_symbolic_reasoning: what it returns or raises, with the files it
\* leaves.  log is the kind of change log _apply_modifiers produced over the
\* images ("none", "boost": BOOST entries only, "penalty": a PENALTY entry,
\* whose conf_before/conf_after keys are not among the report's fieldnames so
\* that csv.DictWriter raises ValueError after the header was written).
apply_symbolic_reasoning(run, failing, log) ==
  IF run.rules = "missing"
    THEN [run EXCEPT !.symbolic_stats = SymStats(TRUE, "Rules file not found", FALSE)]
  ELSE IF run.rules = "unloadable"
    THEN [run EXCEPT !.symbolic_stats = SymStats(TRUE, "Error during processing", TRUE)]
  ELSE IF run.rules = "empty"
    THEN [run EXCEPT !.symbolic_stats = SymStats(TRUE, "No modifier rules found", FALSE)]
  ELSE IF parsed(run.nms) = {}
    THEN [run EXCEPT !.symbolic_stats = SymStats(FALSE, None, FALSE)]
  ELSE IF failing # 0
    THEN [run EXCEPT !.symbolic_stats = SymStats(TRUE, "Error during processing", TRUE),
                     !.symbolic_failed = failing]
  ELSE LET saved == [run EXCEPT !.refined = [s \in Stem |-> IF s \in parsed(run.nms)
                                                               THEN "dets" ELSE "absent"],
                                !.refined_writes = [s \in Stem |-> IF s \in parsed(run.nms)
                                                                      THEN 1 ELSE 0],
                                !.change_log = log]
       IN IF log = "none"
            THEN [saved EXCEPT !.symbolic_stats = SymStats(FALSE, None, FALSE)]
          ELSE IF log = "boost"
            THEN [saved EXCEPT !.symbolic_stats = SymStats(FALSE, None, FALSE),
                               !.report = "written"]
          ELSE [saved EXCEPT !.symbolic_stats = SymStats(TRUE, "Error during processing", TRUE),
                             !.report = "partial"]

\* run_inference, "Apply symbolic reasoning if enabled": the stage's result
\* or, when it raised, the error entry, is stored in inference_stats; the
\* stage writes the 'symbolic_reasoning' progress first.
service_symbolic ==
  /\ spc = "symbolic"
  /\ IF sv.symbolic_enabled
       THEN /\ job' = update_job(get_job,
                                 [progress |-> Progress("symbolic_reasoning", 94, NoVal, NoVal)],
                                 clock + 1)
            /\ clock' = clock + 1
            /\ \E failing \in {0} \cup parsed(sv.nms), log \in {"none", "boost", "penalty"} :
                 sv' = apply_symbolic_reasoning(sv, failing, log)
       ELSE /\ sv' = [sv EXCEPT !.symbolic_stats =
                                   SymStats(TRUE, "Disabled in configuration", FALSE)]
            /\ UNCHANGED <<job, clock>>
  /\ spc' = "complete"
  /\ UNCHANGED <<cpc, csnap, upc, usnap, rpc, rsnap, resp, tpc, tsnap>>

\* run_inference, "Update job with completion", and return.
service_complete ==
  /\ spc = "complete"
  /\ job' = update_job(get_job,
                       [status |-> "completed",
                        progress |-> Progress("completed", 100, sv.processed_count,
                                              sv.total_images),
                        inference_stats |-> [nms |-> sv.nms_stats,
                                             symbolic_reasoning |-> sv.symbolic_stats]],
                       clock + 1)
  /\ clock' = clock + 1
  /\ spc' = "done"
  /\ sv' = [sv EXCEPT !.result = "returned"]
  /\ UNCHANGED <<cpc, csnap, upc, usnap, rpc, rsnap, resp, tpc, tsnap>>

\* ------------------------------------------- GET /jobs/{job_id}/results
\* _parse_prediction_files: every .txt file of the directory gets an entry,
\* also a file without a valid detection line
parse_prediction_files(dir) == {s \in Stem : dir[s] # "absent"}

NoResponse == [code |-> "none", images |-> {}, detections |-> {}]

\* the error answers of get_job_results
results_error(code) == [code |-> code, images |-> {}, detections |-> {}]

\* the status check dropped: the refined directory is read for any job
get_job_results_no_status_check(job_data, refined) ==
  IF ~job_data.exists THEN results_error("JOB_NOT_FOUND")
  ELSE IF parse_prediction_files(refined) = {} THEN results_error("RESULTS_NOT_FOUND")
  ELSE [code |-> "success",
        images |-> parse_prediction_files(refined),
        detections |-> parsed(refined)]

\* get_job_results on the record get_job returned and the job's refined
\* directory: the error code of the HTTPException raised, or the images of
\* the answer and those of them that carry detections.
get_job_results(job_data, refined) ==
  IF ~job_data.exists THEN results_error("JOB_NOT_FOUND")
  ELSE IF job_data.status # "completed" THEN results_error("RESULTS_NOT_READY")
  ELSE IF parse_prediction_files(refined) = {} THEN results_error("RESULTS_NOT_FOUND")
  ELSE [code |-> "success",
        images |-> parse_prediction_files(refined),
        detections |-> parsed(refined)]

\* a client asks for the results at any moment of the run or after it
get_job_results_call ==
  /\ spc \in {"start", "images", "nms", "symbolic", "complete", "done"}
  /\ sv.on
  /\ sv' = [sv EXCEPT !.response = get_job_results(get_job, sv.refined)]
  /\ UNCHANGED <<job, clock, spc, cpc, csnap, upc, usnap, rpc, rsnap, resp, tpc, tsnap>>

Run(stem, symbolic_enabled, rules) ==
  [on |-> TRUE, stem |-> stem, symbolic_enabled |-> symbolic_enabled, rules |-> rules,
   total_images |-> 0, idx |-> 0, processed_count |-> 0,
   saved |-> {}, image_failed |-> {}, not_found |-> {},
   raw |-> NoFiles, nms |-> NoFiles, refined |-> NoFiles,
   raw_writes |-> NoWrites, nms_writes |-> NoWrites, refined_writes |-> NoWrites,
   report |-> "absent", change_log |-> "none",
   nms_stats |-> None, nms_failed |-> 0,
   symbolic_stats |-> NoSymStats, symbolic_failed |-> 0,
   result |-> "running", raised |-> None, response |-> NoResponse]

InitService ==
  /\ \E n \in 0..MaxImages : job = ProcessingJob(n)
  /\ clock = 1
  /\ cpc = "done"
  /\ csnap = NoJob
  /\ upc = [u \in Upl |-> "idle"]
  /\ usnap = [u \in Upl |-> NoJob]
  /\ rpc = [r \in Req |-> "done"]
  /\ rsnap = [r \in Req |-> NoJob]
  /\ resp = [r \in Req |-> "none"]
  /\ tpc = [r \in Req |-> "none"]
  /\ tsnap = [r \in Req |-> NoJob]
  /\ spc = "start"
  /\ \E stem \in [Img -> Stem], enabled \in BOOLEAN,
        rules \in {"missing", "unloadable", "empty", "loaded"} :
       sv = Run(stem, enabled, rules)

NextService ==
  \/ service_start
  \/ service_image
  \/ service_nms
  \/ service_symbolic
  \/ service_complete
  \/ get_job_results_call

SpecService == InitService /\ [][NextService]_vars

\* ------------------- SymbolicReasoningService: adjustment of one image
MaxDets == 2         \* detections parsed from the image's nms file

\* DEFAULT_CLASS_MAP, for the category ids used here
Categories == {0, 1}
class_map(category_id) == IF category_id = 0 THEN "plane" ELSE "ship"

\* boxes [x_min, y_min, x_max, y_max] on an integer grid: two that overlap by
\* more than half, and one far from both
Boxes == {<<0, 0, 4, 4>>, <<1, 1, 5, 5>>, <<40, 40, 44, 44>>}

\* confidences are counted in units of 1/ConfUnit (ConfUnit is 1.0), fine
\* enough for every product formed here to be exact; weights in halves
ConfUnit == 2 ^ (MaxDets + 2)
Confidences == {ConfUnit \div 2, (3 * ConfUnit) \div 4}
Weights == {0, 1, 2, 4}
WeightOne == 2
Keys == {<<"plane", "ship">>, <<"ship", "plane">>}

\* the modifier maps _load_modifier_map can return over these keys
ModifierMaps == UNION {[K -> Weights] : K \in SUBSET Keys}

\* a default weight of 0.5 returned for a missing key
dict_get_default_weight(d, key) == IF key \in DOMAIN d THEN d[key] ELSE 1

\* dict.get(key): the value, or None
dict_get(d, key) == IF key \in DOMAIN d THEN d[key] ELSE NoVal

\* Python "x or y": x when x is truthy (not None, not 0.0), else y
py_or(x, y) == IF x # NoVal /\ x # 0 THEN x ELSE y

\* weight = modifier_map.get((class_a, class_b)) or modifier_map.get((class_b, class_a))
weight(modifier_map, class_a, class_b) ==
  py_or(dict_get(modifier_map, <<class_a, class_b>>),
        dict_get(modifier_map, <<class_b, class_a>>))

Max2(x, y) == IF x >= y THEN x ELSE y
Min2(x, y) == IF x <= y THEN x ELSE y

\* _get_bbox_diagonal, squared
diag2(bbox) ==
  (bbox[3] - bbox[1]) * (bbox[3] - bbox[1]) + (bbox[4] - bbox[2]) * (bbox[4] - bbox[2])

\* _get_distance between the centers, squared and times 4 (the centers are
\* ((x_min + x_max) / 2, (y_min + y_max) / 2))
distance2x4(bbox_a, bbox_b) ==
  LET dx == (bbox_a[1] + bbox_a[3]) - (bbox_b[1] + bbox_b[3])
      dy == (bbox_a[2] + bbox_a[4]) - (bbox_b[2] + bbox_b[4])
  IN dx * dx + dy * dy

\* distance < 2 * avg_diag, that is distance < diag_a + diag_b, decided on
\* the squares
proximity_gate(bbox_a, bbox_b) ==
  LET A == diag2(bbox_a)
      B == diag2(bbox_b)
      L == distance2x4(bbox_a, bbox_b) - 4 * A - 4 * B
  IN L < 0 \/ L * L < 64 * A * B

\* _get_bbox_area
bbox_area(bbox) == Max2(0, bbox[3] - bbox[1]) * Max2(0, bbox[4] - bbox[2])

\* _get_intersection_area
intersection_area(bbox_a, bbox_b) ==
  LET ix1 == Max2(bbox_a[1], bbox_b[1])
      iy1 == Max2(bbox_a[2], bbox_b[2])
      ix2 == Min2(bbox_a[3], bbox_b[3])
      iy2 == Min2(bbox_a[4], bbox_b[4])
  IN Max2(0, ix2 - ix1) * Max2(0, iy2 - iy1)

\* min_area > 0 and intersection / min_area > 0.5
overlap_gate(bbox_a, bbox_b) ==
  LET min_area == Min2(bbox_area(bbox_a), bbox_area(bbox_b))
  IN min_area > 0 /\ 2 * intersection_area(bbox_a, bbox_b) > min_area

\* confidence * weight
times(confidence, w) == (confidence * w) \div WeightOne

\* the keys of a BOOST and of a PENALTY log entry (image_name is added by
\* apply_symbolic_reasoning), and the report's fieldnames
BoostKeys ==
  {"action", "rule_pair", "object_1", "conf_1_before", "conf_1_after",
   "object_2", "conf_2_before", "conf_2_after", "image_name"}
PenaltyKeys ==
  BoostKeys \cup {"suppressed_object", "conf_before", "conf_after",
                  "kept_object", "kept_object_conf"}
fieldnames ==
  {"image_name", "action", "rule_pair", "object_1", "conf_1_before", "conf_1_after",
   "object_2", "conf_2_before", "conf_2_after", "suppressed_object", "kept_object",
   "kept_object_conf"}

\* f"{confidence:.2f}": the confidence in hundredths, rounded half to even
\* (the values are dyadic, so a tie is an exact tie)
fmt2(confidence) ==
  LET q == (100 * confidence) \div ConfUnit
      r == (100 * confidence) % ConfUnit
  IN IF 2 * r > ConfUnit THEN q + 1
     ELSE IF 2 * r = ConfUnit THEN q + (q % 2)
     ELSE q

\* a log entry: the formatted confidences of obj_a and obj_b before and
\* after the action, the classes, and the keys of the dictionary
log_entry(action, class_a, class_b, suppressed, kept, before, after, i, j) ==
  [action |-> action, rule_pair |-> <<class_a, class_b>>,
   object_1 |-> class_a, object_2 |-> class_b,
   conf_1_before |-> fmt2(before[i].confidence),
   conf_1_after |-> fmt2(after[i].confidence),
   conf_2_before |-> fmt2(before[j].confidence),
   conf_2_after |-> fmt2(after[j].confidence),
   suppressed_object |-> suppressed, kept_object |-> kept,
   keys |-> IF action = "BOOST" THEN BoostKeys ELSE PenaltyKeys]

\* the boost wrongly limited to obj_a
boost_first_only(objects, i, j, w) ==
  [objects EXCEPT ![i].confidence = Min2(ConfUnit, times(objects[i].confidence, w))]

\* the boost without the min(1.0, ...)
boost_unclamped(objects, i, j, w) ==
  [objects EXCEPT ![i].confidence = times(objects[i].confidence, w),
                  ![j].confidence = times(objects[j].confidence, w)]

\* "Boost confidences": both objects, clamped to 1.0
boost(objects, i, j, w) ==
  [objects EXCEPT ![i].confidence = Min2(ConfUnit, times(objects[i].confidence, w)),
                  ![j].confidence = Min2(ConfUnit, times(objects[j].confidence, w))]

\* the comparison made with >=: on a tie obj_b is suppressed
suppressed_obj_on_tie_later(objects, i, j) ==
  IF objects[i].confidence >= objects[j].confidence THEN j ELSE i

\* the index of the object the penalty suppresses: obj_b when obj_a has the
\* higher confidence, else obj_a
suppressed_obj(objects, i, j) ==
  IF objects[i].confidence > objects[j].confidence THEN j ELSE i

kept_obj(objects, i, j) ==
  IF objects[i].confidence > objects[j].confidence THEN i ELSE j

\* "Penalize the lower confidence object": suppressed_obj["confidence"] *= weight
penalty(objects, i, j, w) ==
  [objects EXCEPT ![suppressed_obj(objects, i, j)].confidence = times(@, w)]

\* The body of the pair loop of _apply_modifiers for obj_ids[i], obj_ids[j]
\* (modified_objects keeps the input order, the ids being distinct): the
\* objects after it, the weight looked up and the entries appended to
\* change_log (none or one).
pair_body(objects, modifier_map, i, j) ==
  LET obj_a == objects[i]
      obj_b == objects[j]
      class_a == class_map(obj_a.category_id)
      class_b == class_map(obj_b.category_id)
      w == weight(modifier_map, class_a, class_b)
      untouched == [objects |-> objects, weight |-> w, entries |-> <<>>]
  IN IF w = NoVal THEN untouched
     ELSE IF w > WeightOne
       THEN IF proximity_gate(obj_a.bbox, obj_b.bbox)
              THEN [objects |-> boost(objects, i, j, w),
                    weight |-> w,
                    entries |-> <<log_entry("BOOST", class_a, class_b, None, None,
                                            objects, boost(objects, i, j, w), i, j)>>]
              ELSE untouched
     ELSE IF w < WeightOne
       THEN IF overlap_gate(obj_a.bbox, obj_b.bbox)
              THEN [objects |-> penalty(objects, i, j, w),
                    weight |-> w,
                    entries |-> <<log_entry("PENALTY", class_a, class_b,
                                            class_map(objects[suppressed_obj(objects, i, j)].category_id),
                                            class_map(objects[kept_obj(objects, i, j)].category_id),
                                            objects, penalty(objects, i, j, w), i, j)>>]
              ELSE untouched
     ELSE untouched

\* the variables the adjustment of an image leaves alone
others == <<job, clock, cpc, csnap, upc, usnap, rpc, rsnap, resp, tpc, tsnap>>

\* the pair evaluated on the detections as they were parsed instead of as
\* they stand: earlier changes to obj_a and obj_b are not seen
apply_modifiers_pair_reads_input ==
  /\ spc = "pairs"
  /\ sv.j <= Len(sv.modified_objects)
  /\ LET r == pair_body(sv.objects, sv.modifier_map, sv.i, sv.j)
         last == sv.j = Len(sv.modified_objects)
     IN sv' = [sv EXCEPT !.modified_objects = [@ EXCEPT ![sv.i] = r.objects[sv.i],
                                                        ![sv.j] = r.objects[sv.j]],
                         !.change_log = @ \o r.entries,
                         !.log_pairs = @ \o [e \in 1..Len(r.entries) |-> <<sv.i, sv.j>>],
                         !.weight = r.weight,
                         !.i = IF last THEN sv.i + 1 ELSE sv.i,
                         !.j = IF last THEN sv.i + 2 ELSE sv.j + 1]
  /\ UNCHANGED <<spc, others>>

\* _apply_modifiers: one iteration of "for i ... for j in range(i + 1, ...)";
\* log_pairs records for every entry of change_log the pair that emitted it
apply_modifiers_pair ==
  /\ spc = "pairs"
  /\ sv.j <= Len(sv.modified_objects)
  /\ LET r == pair_body(sv.modified_objects, sv.modifier_map, sv.i, sv.j)
         last == sv.j = Len(sv.modified_objects)
     IN sv' = [sv EXCEPT !.modified_objects = r.objects,
                         !.change_log = @ \o r.entries,
                         !.log_pairs = @ \o [e \in 1..Len(r.entries) |-> <<sv.i, sv.j>>],
                         !.weight = r.weight,
                         !.i = IF last THEN sv.i + 1 ELSE sv.i,
                         !.j = IF last THEN sv.i + 2 ELSE sv.j + 1]
  /\ UNCHANGED <<spc, others>>

\* the refined file written without the objects whose confidence is below 0.5
save_predictions_drops_low ==
  /\ spc = "pairs"
  /\ sv.j > Len(sv.modified_objects)
  /\ IF Len(sv.objects) = 0 \/ DOMAIN sv.modifier_map = {}
       THEN /\ spc' = "done"
            /\ sv' = [sv EXCEPT !.result = "returned"]
       ELSE /\ spc' = "report"
            /\ LET high(obj) == 2 * obj.confidence >= ConfUnit
               IN sv' = [sv EXCEPT !.refined_written = TRUE,
                                   !.refined = SelectSeq(sv.modified_objects, high)]
  /\ UNCHANGED others

\* apply_symbolic_reasoning after the image's objects were adjusted.  With an
\* empty modifier map ("No modifier rules found") or no predictions ("No NMS
\* predictions found") the stage has returned before the loop and writes
\* nothing (_apply_modifiers is then reached by a direct call only);
\* otherwise _save_predictions writes one line per object of refined_objs.
save_predictions ==
  /\ spc = "pairs"
  /\ sv.j > Len(sv.modified_objects)
  /\ IF Len(sv.objects) = 0 \/ DOMAIN sv.modifier_map = {}
       THEN /\ spc' = "done"
            /\ sv' = [sv EXCEPT !.result = "returned"]
       ELSE /\ spc' = "report"
            /\ sv' = [sv EXCEPT !.refined_written = TRUE,
                                !.refined = sv.modified_objects]
  /\ UNCHANGED others

\* the rows csv.DictWriter.writerows writes before it stops: an entry with a
\* key that is not among the fieldnames raises ValueError
RECURSIVE rows_written(_)
rows_written(report) ==
  IF report = <<>> \/ ~(Head(report).keys \subseteq fieldnames) THEN <<>>
  ELSE <<Head(report)>> \o rows_written(Tail(report))

\* the "if not report" return dropped: a header-only file for an empty report
save_explainability_report_no_empty_check(report) ==
  [file |-> "written", rows |-> rows_written(report),
   raised |-> Len(rows_written(report)) < Len(report)]

\* _save_explainability_report: no file for an empty report; otherwise the
\* header and the rows, up to the first entry DictWriter rejects
save_explainability_report(report) ==
  IF report = <<>>
    THEN [file |-> "absent", rows |-> <<>>, raised |-> FALSE]
  ELSE [file |-> "written", rows |-> rows_written(report),
        raised |-> Len(rows_written(report)) < Len(report)]

\* apply_symbolic_reasoning: the report is saved and the statistics are
\* returned, or the exception is raised as SymbolicReasoningError
symbolic_report ==
  /\ spc = "report"
  /\ LET r == save_explainability_report(sv.change_log)
     IN sv' = [sv EXCEPT !.report_file = r.file,
                         !.report_rows = r.rows,
                         !.result = IF r.raised THEN "raised" ELSE "returned"]
  /\ spc' = "done"
  /\ UNCHANGED others

\* the detections _parse_predictions yields for a file with n valid lines
Detections(n) ==
  [1..n -> [id : {0}, category_id : Categories, bbox : Boxes, confidence : Confidences]]

\* the locals of apply_symbolic_reasoning for one image before the pair loop
Adjustment(dets, modifier_map) ==
  LET objects == [k \in 1..Len(dets) |-> [dets[k] EXCEPT !.id = k]]
  IN [objects |-> objects, modifier_map |-> modifier_map,
      modified_objects |-> objects, change_log |-> <<>>, log_pairs |-> <<>>,
      weight |-> NoVal, i |-> 1, j |-> 2,
      refined_written |-> FALSE, refined |-> <<>>,
      report_file |-> "absent", report_rows |-> <<>>,
      result |-> "running"]

InitSymbolic ==
  /\ job = NoJob
  /\ clock = 0
  /\ cpc = "done"
  /\ csnap = NoJob
  /\ upc = [u \in Upl |-> "idle"]
  /\ usnap = [u \in Upl |-> NoJob]
  /\ rpc = [r \in Req |-> "done"]
  /\ rsnap = [r \in Req |-> NoJob]
  /\ resp = [r \in Req |-> "none"]
  /\ tpc = [r \in Req |-> "none"]
  /\ tsnap = [r \in Req |-> NoJob]
  /\ spc = "pairs"
  /\ \E n \in 0..MaxDets : \E dets \in Detections(n), modifier_map \in ModifierMaps :
       sv = Adjustment(dets, modifier_map)

NextSymbolic ==
  \/ apply_modifiers_pair
  \/ save_predictions
  \/ symbolic_report

SpecSymbolic == InitSymbolic /\ [][NextSymbolic]_vars

\* ------------- the adjustment of an image with more than one pair
\* Longer files whose detections all lie on one another (both gates pass
\* for every pair), so that a detection takes part in several actions.
MaxChain == 3        \* detections of the image; at most MaxDets + 1

ChainBoxes == {<<0, 0, 4, 4>>, <<1, 1, 5, 5>>}

ChainDetections(n) ==
  [1..n -> [id : {0}, category_id : Categories, bbox : ChainBoxes,
            confidence : Confidences]]

InitChain ==
  /\ job = NoJob
  /\ clock = 0
  /\ cpc = "done"
  /\ csnap = NoJob
  /\ upc = [u \in Upl |-> "idle"]
  /\ usnap = [u \in Upl |-> NoJob]
  /\ rpc = [r \in Req |-> "done"]
  /\ rsnap = [r \in Req |-> NoJob]
  /\ resp = [r \in Req |-> "none"]
  /\ tpc = [r \in Req |-> "none"]
  /\ tsnap = [r \in Req |-> NoJob]
  /\ spc = "pairs"
  /\ \E n \in 0..MaxChain : \E dets \in ChainDetections(n), modifier_map \in ModifierMaps :
       sv = Adjustment(dets, modifier_map)

SpecChain == InitChain /\ [][NextSymbolic]_vars

\* ----------------------------------- parsing of one prediction file
MaxLines == 3        \* lines of the prediction file

\* line.strip().split() of the lines a file can hold: two well-formed lines,
\* a line with a non-numeric token, a short line, a long line, a blank line
Lines ==
  {<<"0", "0.5", "0.5", "0.5", "0.5", "0.5">>,
   <<"1", "0.5", "0.5", "0.5", "0.5", "1">>,
   <<"0", "0.5", "0.5", "abc", "0.5", "0.5">>,
   <<"0", "0.5", "0.5", "0.5", "0.5">>,
   <<"0", "0.5", "0.5", "0.5", "0.5", "0.5", "0.5">>,
   <<>>}

\* float(token) succeeds
is_float(token) == token # "abc"

\* int(category_id) of the first token
category_of(token) == IF token = "1" THEN 1 ELSE 0

\* The body of "for idx, line in enumerate(handle)" in _parse_predictions and
\* in parse_predictions_for_nms (which numbers no detection): a line that has
\* not 6 parts is skipped, map(float, parts) raises ValueError on a part that
\* is no number, otherwise the detection is appended.
parse_line(predictions, parts, idx, parser) ==
  IF Len(parts) # 6
    THEN [predictions |-> predictions, raised |-> FALSE]
  ELSE IF \E k \in 1..6 : ~is_float(parts[k])
    THEN [predictions |-> predictions, raised |-> TRUE]
  ELSE [predictions |-> Append(predictions,
                               [id |-> IF parser = "symbolic" THEN idx ELSE NoVal,
                                category_id |-> category_of(parts[1]),
                                parts |-> parts]),
        raised |-> FALSE]

\* one line of the file is read
parse_next_line ==
  /\ spc = "parsing"
  /\ sv.idx < Len(sv.lines)
  /\ LET r == parse_line(sv.predictions, sv.lines[sv.idx + 1], sv.idx, sv.parser)
     IN IF r.raised
          THEN /\ spc' = "done"
               /\ sv' = [sv EXCEPT !.result = "raised"]
          ELSE /\ spc' = "parsing"
               /\ sv' = [sv EXCEPT !.predictions = r.predictions, !.idx = @ + 1]
  /\ UNCHANGED others

\* end of the file: the predictions are returned
parse_return ==
  /\ spc = "parsing"
  /\ sv.idx = Len(sv.lines)
  /\ spc' = "done"
  /\ sv' = [sv EXCEPT !.result = "returned"]
  /\ UNCHANGED others

InitParse ==
  /\ job = NoJob
  /\ clock = 0
  /\ cpc = "done"
  /\ csnap = NoJob
  /\ upc = [u \in Upl |-> "idle"]
  /\ usnap = [u \in Upl |-> NoJob]
  /\ rpc = [r \in Req |-> "done"]
  /\ rsnap = [r \in Req |-> NoJob]
  /\ resp = [r \in Req |-> "none"]
  /\ tpc = [r \in Req |-> "none"]
  /\ tsnap = [r \in Req |-> NoJob]
  /\ spc = "parsing"
  /\ \E n \in 0..MaxLines : \E lines \in [1..n -> Lines], parser \in {"nms", "symbolic"} :
       sv = [parser |-> parser, lines |-> lines, idx |-> 0,
             predictions |-> <<>>, result |-> "running"]

NextParse ==
  \/ parse_next_line
  \/ parse_return

SpecParse == InitParse /\ [][NextParse]_vars

\* --------------------------------- pre_filter_with_nms on one image
MaxBoxes == 4        \* detections of the image

\* bbox_voc of the detections: ten by ten boxes, shifted against each other
NmsBoxes == {<<0, 0, 10, 10>>, <<3, 0, 13, 10>>, <<5, 0, 15, 10>>, <<3, 2, 13, 12>>}

\* iou_threshold, in hundredths
Thresholds == {50, 60}

\* torchvision's box_iou(a, b) > iou_threshold, with
\* iou = inter / (area_a + area_b - inter)
iou_exceeds(box_a, box_b, iou_threshold) ==
  LET inter == intersection_area(box_a, box_b)
      union == bbox_area(box_a) + bbox_area(box_b) - inter
  IN inter * 100 > iou_threshold * union

\* the indices of S in decreasing order of score
RECURSIVE by_score(_, _)
by_score(objects, S) ==
  IF S = {} THEN <<>>
  ELSE LET top == CHOOSE k \in S :
                    \A m \in S : \/ objects[k].confidence > objects[m].confidence
                                 \/ /\ objects[k].confidence = objects[m].confidence
                                    /\ k <= m
       IN <<top>> \o by_score(objects, S \ {top})

\* the greedy pass over the indices in score order: an index is kept unless
\* its box overlaps the box of an index kept before it by more than the threshold
RECURSIVE greedy(_, _, _, _)
greedy(objects, iou_threshold, order, keep) ==
  IF order = <<>> THEN keep
  ELSE LET idx == Head(order)
           suppressed == \E k \in 1..Len(keep) :
                           iou_exceeds(objects[keep[k]].bbox_voc, objects[idx].bbox_voc,
                                       iou_threshold)
       IN greedy(objects, iou_threshold, Tail(order),
                 IF suppressed THEN keep ELSE Append(keep, idx))

\* torchvision.ops.nms(boxes, scores, iou_threshold): the indices kept, in
\* decreasing order of score
nms(objects, iou_threshold) ==
  greedy(objects, iou_threshold, by_score(objects, 1..Len(objects)), <<>>)

\* the keys of objects_by_class in insertion order: the classes in the order
\* of their first detection
RECURSIVE class_order(_, _)
class_order(objects_in_image, seen) ==
  IF objects_in_image = <<>> THEN <<>>
  ELSE LET c == Head(objects_in_image).category_id
       IN IF c \in seen THEN class_order(Tail(objects_in_image), seen)
          ELSE <<c>> \o class_order(Tail(objects_in_image), seen \cup {c})

\* objects_by_class[c]
objects_of_class(objects_in_image, c) ==
  LET in_class(obj) == obj.category_id = c
  IN SelectSeq(objects_in_image, in_class)

\* the body of "for objects in objects_by_class.values()": a class with
\* fewer than two objects is passed on, the others go through nms
filter_class(objects, iou_threshold) ==
  IF Len(objects) < 2 THEN objects
  ELSE LET keep_indices == nms(objects, iou_threshold)
       IN [k \in 1..Len(keep_indices) |-> objects[keep_indices[k]]]

\* filtered_objects after the loop over the given classes
RECURSIVE filter_classes(_, _, _)
filter_classes(objects_in_image, classes, iou_threshold) ==
  IF classes = <<>> THEN <<>>
  ELSE filter_class(objects_of_class(objects_in_image, Head(classes)), iou_threshold)
         \o filter_classes(objects_in_image, Tail(classes), iou_threshold)

\* a class with fewer than two objects skipped without being passed on
pre_filter_with_nms_drops_single(objects_in_image, iou_threshold) ==
  LET several(obj) == Len(objects_of_class(objects_in_image, obj.category_id)) >= 2
  IN SelectSeq(filter_classes(objects_in_image, class_order(objects_in_image, {}),
                              iou_threshold),
               several)

\* no grouping by class: one nms over all the objects of the image
pre_filter_with_nms_all_classes(objects_in_image, iou_threshold) ==
  filter_class(objects_in_image, iou_threshold)

\* nms called with 1 - iou_threshold
pre_filter_with_nms_complement(objects_in_image, iou_threshold) ==
  filter_classes(objects_in_image, class_order(objects_in_image, {}), 100 - iou_threshold)

\* pre_filter_with_nms
pre_filter_with_nms(objects_in_image, iou_threshold) ==
  filter_classes(objects_in_image, class_order(objects_in_image, {}), iou_threshold)

NotCalled == [called |-> FALSE, filtered |-> <<>>]

\* a call filtered = pre_filter_with_nms(objects, iou_threshold) on the
\* objects of the image; the thresholds are tried in rising order
pre_filter_call ==
  /\ spc = "nms"
  /\ \E t \in Thresholds :
       /\ ~sv.once[t].called
       /\ \A u \in Thresholds : u < t => sv.once[u].called
       /\ sv' = [sv EXCEPT !.once[t] =
                    [called |-> TRUE,
                     filtered |-> pre_filter_with_nms(sv.objects_in_image, t)]]
  /\ UNCHANGED <<spc, others>>

\* a second call, on the list an earlier call returned, with its threshold
pre_filter_again ==
  /\ spc = "nms"
  /\ \E t \in Thresholds :
       /\ \A u \in Thresholds : sv.once[u].called
       /\ ~sv.twice[t].called
       /\ \A u \in Thresholds : u < t => sv.twice[u].called
       /\ sv' = [sv EXCEPT !.twice[t] =
                    [called |-> TRUE,
                     filtered |-> pre_filter_with_nms(sv.once[t].filtered, t)]]
  /\ UNCHANGED <<spc, others>>

\* the objects parse_predictions_for_nms yields for a file with n lines;
\* line is the line of the file an object was read from, and the
\* confidences are distinct, rising or falling along the file
NmsObjects(n) ==
  {[k \in 1..n |-> [line |-> k, category_id |-> cls[k], bbox_voc |-> box[k],
                    confidence |-> IF rising THEN k ELSE n + 1 - k]] :
     cls \in [1..n -> Categories], box \in [1..n -> NmsBoxes], rising \in BOOLEAN}

InitNms ==
  /\ job = NoJob
  /\ clock = 0
  /\ cpc = "done"
  /\ csnap = NoJob
  /\ upc = [u \in Upl |-> "idle"]
  /\ usnap = [u \in Upl |-> NoJob]
  /\ rpc = [r \in Req |-> "done"]
  /\ rsnap = [r \in Req |-> NoJob]
  /\ resp = [r \in Req |-> "none"]
  /\ tpc = [r \in Req |-> "none"]
  /\ tsnap = [r \in Req |-> NoJob]
  /\ spc = "nms"
  /\ \E n \in 0..MaxBoxes : \E objects \in NmsObjects(n) :
       sv = [objects_in_image |-> objects,
             once |-> [t \in Thresholds |-> NotCalled],
             twice |-> [t \in Thresholds |-> NotCalled]]

NextNms ==
  \/ pre_filter_call
  \/ pre_filter_again

SpecNms == InitNms /\ [][NextNms]_vars

\* ======================================================== properties

Rejections == {"JOB_NOT_FOUND", "NO_FILES", "INVALID_STATUS"}

\* C1: a trigger_inference request goes on to the 'processing' update only
\* when the record it read exists, has status 'uploaded' and a non-empty files
\* list; otherwise it is rejected with JOB_NOT_FOUND (no job), NO_FILES (no
\* files) or INVALID_STATUS (any other status), and the step that rejects it
\* leaves the whole job record as it was; only a request that passed the
\* validation is accepted, and its acceptance writes status 'processing'.
C1_TriggerValidation ==
  [][\A r \in Req :
       /\ (rpc[r] = "idle" /\ rpc'[r] # "idle") =>
            /\ job' = job
            /\ IF job.exists /\ job.status = "uploaded" /\ Len(job.files) > 0
                 THEN rpc'[r] = "validated" /\ resp'[r] = "none"
                 ELSE /\ rpc'[r] = "done"
                      /\ resp'[r] = (IF ~job.exists THEN "JOB_NOT_FOUND"
                                     ELSE IF Len(job.files) = 0 THEN "NO_FILES"
                                     ELSE "INVALID_STATUS")
       /\ (resp[r] # "accepted" /\ resp'[r] = "accepted") =>
            rpc[r] = "updating" /\ job'.status = "processing"
       /\ (resp[r] = "none" /\ resp'[r] \in Rejections) => rpc[r] = "idle"
    ]_vars

\* C1 witness: one request was rejected for the status and one was accepted.
C1_Witness ==
  /\ \E r \in Req : resp[r] = "INVALID_STATUS"
  /\ \E r \in Req : resp[r] = "accepted"

\* a step of trigger_inference or of a background thread
CoreStep == rpc' # rpc \/ tpc' # tpc

\* C2: at most one background inference run is ever started for the job:
\* of the trigger_inference requests issued for it, at most one is accepted
\* and has started a worker thread.
C2_SingleRun ==
  /\ Cardinality({r \in Req : tpc[r] # "none"}) <= 1
  /\ Cardinality({r \in Req : resp[r] = "accepted"}) <= 1

\* C3: no update of the job record is lost: the file record appended by
\* every save_upload call that has returned is in the stored files list.
C3_NoLostUpdate ==
  \A u \in Upl : upc[u] = "done" => \E i \in 1..Len(job.files) : job.files[i] = u

\* C4: 'completed' and 'failed' are terminal: no step of trigger_inference or
\* of a background run changes the status of a job whose stored status is
\* 'completed' or 'failed'.
C4_TerminalStatus ==
  [][(CoreStep /\ job.status \in {"completed", "failed"}) => job'.status = job.status]_vars

\* C5: no write of trigger_inference or of a background run changes the
\* stored status to 'processing' from anything but 'uploaded'.
C5_ProcessingOnlyFromUploaded ==
  [][(CoreStep /\ job'.status = "processing" /\ job.status # "processing")
       => job.status = "uploaded"]_vars

\* C6: whenever the job's status is 'processing', it is eventually
\* 'completed' or 'failed' (every process keeps being scheduled).
C6_ProcessingEnds ==
  (job.status = "processing") ~> (job.status \in {"completed", "failed"})

\* C10: in every state of the job record, error is set if and only if the
\* status is 'failed'.
C10_ErrorIffFailed ==
  job.exists => ((job.error # None) <=> (job.status = "failed"))

\* a stage of the finished run raised
StageFailed == sv.nms_stats = "error" \/ sv.symbolic_stats.error

C8_PerImageFailureAbsorbed ==
  (spc = "done" /\ sv.on /\ sv.result = "returned") =>
    /\ sv.saved \cup sv.image_failed \cup sv.not_found = 1..sv.total_images
    /\ (sv.nms_failed # 0 =>
          \A s \in parsed(sv.raw) \ {sv.nms_failed} : sv.nms[s] = "dets")
    /\ (sv.symbolic_failed # 0 =>
          \A s \in parsed(sv.nms) \ {sv.symbolic_failed} : sv.refined[s] = "dets")
    /\ job.status = "completed"

\* C9: when the adjustment stage runs with a missing rules file or an empty
\* rule table, it changes nothing, writes no refined file and no report and
\* returns skipped = true with the reason; the run ends with the job
\* 'completed' and that result in its inference_stats.
C9_SkippedWithoutRules ==
  (sv.on /\ sv.symbolic_enabled /\ sv.symbolic_stats.present
     /\ sv.rules \in {"missing", "empty"}) =>
    /\ sv.refined = NoFiles
    /\ sv.report = "absent"
    /\ sv.change_log = "none"
    /\ sv.symbolic_stats.skipped
    /\ ~sv.symbolic_stats.error
    /\ sv.symbolic_stats.reason =
         (IF sv.rules = "missing" THEN "Rules file not found" ELSE "No modifier rules found")
    /\ (spc = "done" =>
          /\ sv.result = "returned"
          /\ job.status = "completed"
          /\ job.inference_stats.symbolic_reasoning = sv.symbolic_stats)

\* C9 witness: a finished run with NMS output whose rule table was empty.
C9_Witness ==
  /\ spc = "done" /\ sv.on /\ sv.rules = "empty"
  /\ sv.symbolic_enabled /\ sv.symbolic_stats.present
  /\ parsed(sv.nms) # {}
  /\ job.status = "completed"

\* C11: the progress snapshots of a run never go backwards: every snapshot
\* written has a percentage at least that of the snapshot it replaces, and a
\* snapshot that carries a processed-image count carries one at least as
\* large as the count of every earlier snapshot of the run (one was written
\* for each image that was predicted or failed), the 'completed' one included.
C11_ProgressMonotonic ==
  [][sv.on =>
       /\ job'.progress.percentage >= job.progress.percentage
       /\ (job'.progress.images_processed # NoVal =>
             \A i \in sv.saved \cup sv.image_failed : job'.progress.images_processed >= i)]_vars

\* C12: during a run every file under raw/, nms/ and refined/ is written at
\* most once; in particular no two images of the job are written to the same
\* raw file.
C12_ArtifactsWrittenOnce ==
  sv.on => \A s \in Stem : /\ sv.raw_writes[s] <= 1
                           /\ sv.nms_writes[s] <= 1
                           /\ sv.refined_writes[s] <= 1

\* a step of the pair loop of _apply_modifiers, on the pair (sv.i, sv.j)
PairStep == spc = "pairs" /\ sv.j <= Len(sv.modified_objects)

PairClassA == class_map(sv.modified_objects[sv.i].category_id)
PairClassB == class_map(sv.modified_objects[sv.j].category_id)

\* the rule weight of the pair as the rule table defines it: the entry for
\* (a, b) if that key is present, else the entry for (b, a) if present, else none
RuleWeight ==
  IF <<PairClassA, PairClassB>> \in DOMAIN sv.modifier_map
    THEN sv.modifier_map[<<PairClassA, PairClassB>>]
  ELSE IF <<PairClassB, PairClassA>> \in DOMAIN sv.modifier_map
    THEN sv.modifier_map[<<PairClassB, PairClassA>>]
  ELSE NoVal

\* the step changes no object and logs nothing
PairUntouched ==
  sv'.modified_objects = sv.modified_objects /\ sv'.change_log = sv.change_log

\* the step appends exactly one entry, of the given action
OneEntry(action) ==
  /\ Len(sv'.change_log) = Len(sv.change_log) + 1
  /\ SubSeq(sv'.change_log, 1, Len(sv.change_log)) = sv.change_log
  /\ sv'.change_log[Len(sv'.change_log)].action = action

\* C13: _apply_modifiers neither removes nor adds a detection: at every point
\* the objects it holds are the input detections, one for one and in input
\* order, with the same id, class and box (only the confidence may differ);
\* and the refined file the stage writes has as many detections as were read.
C13_NoDetectionAddedOrRemoved ==
  /\ Len(sv.modified_objects) = Len(sv.objects)
  /\ \A k \in 1..Len(sv.objects) :
       k <= Len(sv.modified_objects) =>
         /\ sv.modified_objects[k].id = sv.objects[k].id
         /\ sv.modified_objects[k].category_id = sv.objects[k].category_id
         /\ sv.modified_objects[k].bbox = sv.objects[k].bbox
  /\ (sv.refined_written =>
        /\ Len(sv.refined) = Len(sv.objects)
        /\ \A k \in 1..Len(sv.objects) :
             k <= Len(sv.refined) => sv.refined[k].id = sv.objects[k].id)

\* C13 witness: the stage wrote the refined file of an image in which one
\* detection had been penalised.
C13_Witness ==
  /\ spc = "done" /\ sv.refined_written /\ Len(sv.refined) = MaxDets
  /\ \E e \in 1..Len(sv.change_log) : sv.change_log[e].action = "PENALTY"

\* C14: a pair whose class names are in the rule table in neither order
\* leaves every confidence unchanged and logs nothing; with an empty rule
\* table the objects keep their input confidences and the log stays empty.
C14_NoRuleNoChange ==
  [][/\ (PairStep /\ <<PairClassA, PairClassB>> \notin DOMAIN sv.modifier_map
                  /\ <<PairClassB, PairClassA>> \notin DOMAIN sv.modifier_map)
          => PairUntouched
     /\ (PairStep /\ DOMAIN sv.modifier_map = {})
          => (sv'.modified_objects = sv.objects /\ sv'.change_log = <<>>)]_vars

\* C14 witness: with a rule table that has rules, the loop has gone over two
\* overlapping detections of one class, for which there is no rule.
C14_Witness ==
  /\ spc = "pairs" /\ sv.j > Len(sv.modified_objects) /\ Len(sv.objects) = 2
  /\ DOMAIN sv.modifier_map # {}
  /\ sv.objects[1].category_id = sv.objects[2].category_id
  /\ overlap_gate(sv.objects[1].bbox, sv.objects[2].bbox)
  /\ sv.weight = NoVal

\* C15: the weight the engine uses for a pair (a, b) is the table's entry for
\* (a, b) if that key is present, otherwise the entry for (b, a) if that key
\* is present; no rule only when neither key is present.
C15_UnorderedLookup ==
  [][PairStep => sv'.weight = RuleWeight]_vars

\* C16: for a pair whose rule weight is > 1.0: if the center distance is
\* < 2 * the average diagonal, both confidences become
\* min(1.0, confidence * weight), no other object changes and exactly one
\* BOOST entry is emitted; otherwise nothing changes and nothing is emitted.
C16_Boost ==
  [][(PairStep /\ RuleWeight # NoVal /\ RuleWeight > WeightOne) =>
       IF proximity_gate(sv.modified_objects[sv.i].bbox, sv.modified_objects[sv.j].bbox)
         THEN /\ Len(sv'.modified_objects) = Len(sv.modified_objects)
              /\ \A k \in 1..Len(sv.modified_objects) :
                   sv'.modified_objects[k].confidence =
                     IF k \in {sv.i, sv.j}
                       THEN LET c == (sv.modified_objects[k].confidence * RuleWeight) \div 2
                            IN IF c > ConfUnit THEN ConfUnit ELSE c
                       ELSE sv.modified_objects[k].confidence
              /\ OneEntry("BOOST")
         ELSE PairUntouched]_vars

\* C16 witness: a boosted pair, one confidence of which was clamped to 1.0.
C16_Witness ==
  /\ Len(sv.change_log) = 1 /\ sv.change_log[1].action = "BOOST"
  /\ \E k \in 1..Len(sv.objects) :
       /\ sv.modified_objects[k].confidence = ConfUnit
       /\ sv.objects[k].confidence * 2 > ConfUnit

\* C17: for a pair whose rule weight is < 1.0: if the intersection area over
\* the smaller area is > 0.5, only the lower-confidence detection's
\* confidence is multiplied by the weight (unclamped), every other confidence
\* is unchanged and exactly one PENALTY entry is emitted that names the
\* lower-confidence detection's class as suppressed and the other's as kept;
\* otherwise nothing changes and nothing is emitted.
C17_Penalty ==
  [][(PairStep /\ RuleWeight # NoVal /\ RuleWeight < WeightOne) =>
       IF overlap_gate(sv.modified_objects[sv.i].bbox, sv.modified_objects[sv.j].bbox)
         THEN \E low \in {sv.i, sv.j} : \E high \in {sv.i, sv.j} \ {low} :
                /\ sv.modified_objects[low].confidence <= sv.modified_objects[high].confidence
                /\ Len(sv'.modified_objects) = Len(sv.modified_objects)
                /\ \A k \in 1..Len(sv.modified_objects) :
                     sv'.modified_objects[k].confidence =
                       IF k = low
                         THEN (sv.modified_objects[k].confidence * RuleWeight) \div 2
                         ELSE sv.modified_objects[k].confidence
                /\ OneEntry("PENALTY")
                /\ sv'.change_log[Len(sv'.change_log)].suppressed_object =
                     class_map(sv.modified_objects[low].category_id)
                /\ sv'.change_log[Len(sv'.change_log)].kept_object =
                     class_map(sv.modified_objects[high].category_id)
         ELSE PairUntouched]_vars

\* C18: when the adjustment of the job's image produced at least one log
\* entry, the stage finishes successfully and the report holds one row per
\* entry in emission order, BOOST and PENALTY entries alike.
C18_ReportWritten ==
  (spc = "done" /\ sv.change_log # <<>> /\ sv.refined_written) =>
    /\ sv.result = "returned"
    /\ sv.report_file = "written"
    /\ sv.report_rows = sv.change_log

\* C19: when the adjustment produced no log entry, no report file is created.
C19_NoReportWithoutEntries ==
  (spc = "done" /\ sv.change_log = <<>>) => sv.report_file = "absent"

\* C19 witness: the stage finished for an image with two detections whose
\* rule did not pass its gate, so that nothing was logged.
C19_Witness ==
  /\ spc = "done" /\ sv.refined_written /\ Len(sv.objects) = 2
  /\ sv.weight # NoVal /\ sv.weight # WeightOne
  /\ sv.change_log = <<>> /\ sv.result = "returned"

\* a line with exactly 6 tokens, all numeric
WellFormed(parts) == Len(parts) = 6 /\ \A k \in 1..6 : parts[k] # "abc"

\* C20: parsing a prediction file never fails on a malformed line: the
\* parser (of the NMS stage and of the adjustment stage alike) returns, and
\* its result holds exactly the well-formed lines of the file, in file order.
C20_MalformedLinesSkipped ==
  spc = "done" =>
    /\ sv.result = "returned"
    /\ [k \in 1..Len(sv.predictions) |-> sv.predictions[k].parts]
         = SelectSeq(sv.lines, WellFormed)

C25_ResultsOnlyWhenCompleted ==
  [][sv'.response # sv.response =>
       IF job.status = "completed"
         THEN sv'.response.code \in {"success", "RESULTS_NOT_FOUND"}
         ELSE sv'.response = results_error("RESULTS_NOT_READY")]_vars

C25_Witness ==
  /\ sv.on
  /\ job.status = "processing"
  /\ parsed(sv.refined) # {}
  /\ sv.response = results_error("RESULTS_NOT_READY")

\* the stages of a returned run both ran: NMS wrote its files and the
\* adjustment was neither skipped nor failed
BothStagesRan ==
  /\ sv.result = "returned"
  /\ sv.nms_stats = "ok"
  /\ sv.symbolic_stats.present
  /\ ~sv.symbolic_stats.skipped
  /\ ~sv.symbolic_stats.error

\* C27: when a job completes with both post-processing stages run, nms/ and
\* refined/ each hold exactly one prediction file for every prediction file
\* of raw/, whatever the number of detections in it.
C27_OneFilePerRawFile ==
  (spc = "done" /\ sv.on /\ BothStagesRan) =>
    \A s \in Stem : /\ (sv.nms[s] # "absent") <=> (sv.raw[s] # "absent")
                    /\ (sv.refined[s] # "absent") <=> (sv.raw[s] # "absent")

\* C28: every job that is 'completed' with at least one detection surviving
\* NMS has retrievable results: get_job_results answers with the images that
\* carry detections, also when the adjustment was skipped or disabled.
C28_CompletedHasResults ==
  (sv.on /\ job.status = "completed" /\ parsed(sv.nms) # {}
     /\ sv.response.code \notin {"none", "RESULTS_NOT_READY"}) =>
    (sv.response.code = "success" /\ sv.response.detections = parsed(sv.nms))

\* detection k is one of the two objects of the pair that emitted entry e
InPair(k, e) == k \in {sv.log_pairs[e][1], sv.log_pairs[e][2]}

\* the confidences entry e logs for detection k
LoggedBefore(k, e) ==
  IF k = sv.log_pairs[e][1] THEN sv.change_log[e].conf_1_before
                            ELSE sv.change_log[e].conf_2_before
LoggedAfter(k, e) ==
  IF k = sv.log_pairs[e][1] THEN sv.change_log[e].conf_1_after
                            ELSE sv.change_log[e].conf_2_after

\* entries m < n are successive actions on detection k
Successive(k, m, n) ==
  /\ m < n /\ InPair(k, m) /\ InPair(k, n)
  /\ \A x \in (m + 1)..(n - 1) : ~InPair(k, x)

\* C26: _apply_modifiers evaluates the pairs (i, j), i < j, in ascending
\* order of i then j, each on the confidences as they stand: the change log
\* is in pair order, and when two successive actions touch the same
\* detection the 'before' confidence the later one logs equals the 'after'
\* confidence the earlier one logged.
C26_PairOrderAndChaining ==
  /\ Len(sv.log_pairs) = Len(sv.change_log)
  /\ \A e \in 1..Len(sv.log_pairs) : sv.log_pairs[e][1] < sv.log_pairs[e][2]
  /\ \A e \in 1..(Len(sv.log_pairs) - 1) :
       \/ sv.log_pairs[e][1] < sv.log_pairs[e + 1][1]
       \/ /\ sv.log_pairs[e][1] = sv.log_pairs[e + 1][1]
          /\ sv.log_pairs[e][2] < sv.log_pairs[e + 1][2]
  /\ \A k \in 1..Len(sv.objects) : \A m, n \in 1..Len(sv.change_log) :
       Successive(k, m, n) => LoggedBefore(k, n) = LoggedAfter(k, m)

\* C26 witness: a detection was changed by one action and then took part in a
\* later one, which logged the changed confidence as its 'before'.
C26_Witness ==
  \E k \in 1..Len(sv.objects) : \E m, n \in 1..Len(sv.change_log) :
    /\ Successive(k, m, n)
    /\ LoggedAfter(k, m) # LoggedBefore(k, m)
    /\ LoggedBefore(k, n) # fmt2(sv.objects[k].confidence)

\* C29: with every input confidence in [0, 1] and every rule weight >= 0,
\* every confidence is in [0, 1] at every point of _apply_modifiers and in
\* the refined file, whatever boosts and penalties a detection went through.
C29_ConfidenceInUnitInterval ==
  /\ \A k \in 1..Len(sv.modified_objects) :
       /\ 0 <= sv.modified_objects[k].confidence
       /\ sv.modified_objects[k].confidence <= ConfUnit
  /\ \A k \in 1..Len(sv.refined) :
       /\ 0 <= sv.refined[k].confidence
       /\ sv.refined[k].confidence <= ConfUnit

\* C29 witness: the refined file of an image in which a detection was
\* boosted up to the clamp and a detection was penalised.
C29_Witness ==
  /\ sv.refined_written
  /\ \E e \in 1..Len(sv.change_log) : sv.change_log[e].action = "BOOST"
  /\ \E e \in 1..Len(sv.change_log) : sv.change_log[e].action = "PENALTY"
  /\ \E k \in 1..Len(sv.refined) :
       /\ sv.refined[k].confidence = ConfUnit
       /\ sv.objects[k].confidence < ConfUnit

\* the two detections of the pair have the same current confidence
PairTie ==
  sv.modified_objects[sv.i].confidence = sv.modified_objects[sv.j].confidence

\* C30: when a penalty fires on a pair whose two detections have equal
\* current confidences, exactly one of them is penalised: the earlier one
\* (lower index) is multiplied by the weight and logged as suppressed, the
\* later one is unchanged and logged as kept.
C30_TiePenalisesEarlier ==
  [][(PairStep /\ PairTie /\ OneEntry("PENALTY")) =>
       /\ sv'.modified_objects[sv.i].confidence =
            (sv.modified_objects[sv.i].confidence * sv'.weight) \div 2
       /\ \A k \in 1..Len(sv.modified_objects) :
            k # sv.i => sv'.modified_objects[k] = sv.modified_objects[k]
       /\ sv'.change_log[Len(sv'.change_log)].suppressed_object = PairClassA
       /\ sv'.change_log[Len(sv'.change_log)].kept_object = PairClassB]_vars

\* C30 witness: a penalty on a tie lowered the first detection below the second.
C30_Witness ==
  /\ Len(sv.objects) = 2 /\ Len(sv.change_log) = 1
  /\ sv.change_log[1].action = "PENALTY"
  /\ sv.objects[1].confidence = sv.objects[2].confidence
  /\ sv.modified_objects[1].confidence < sv.modified_objects[2].confidence

\* the detections of a list, as a set
Members(objects) == {objects[k] : k \in 1..Len(objects)}

\* C21: NMS is idempotent: pre_filter_with_nms applied to its own result
\* with the same threshold returns exactly the detections of that result.
C21_NmsIdempotent ==
  \A t \in Thresholds :
    sv.twice[t].called =>
      /\ Len(sv.twice[t].filtered) = Len(sv.once[t].filtered)
      /\ Members(sv.twice[t].filtered) = Members(sv.once[t].filtered)

\* C21 witness: the first call dropped a detection and the second call was
\* made on a list that still has two detections of one class.
C21_Witness ==
  \E t \in Thresholds :
    /\ sv.twice[t].called
    /\ Len(sv.once[t].filtered) < Len(sv.objects_in_image)
    /\ \E a, b \in 1..Len(sv.once[t].filtered) :
         /\ a # b
         /\ sv.once[t].filtered[a].category_id = sv.once[t].filtered[b].category_id

\* C22: NMS is class-isolated: what pre_filter_with_nms keeps of a class is
\* what it keeps of that class's detections alone (the detections of other
\* classes have no influence, whatever their overlap), and a detection that
\* is the only one of its class is always kept.
C22_NmsClassIsolated ==
  \A t \in Thresholds :
    sv.once[t].called =>
      \A c \in Categories :
        LET alone == objects_of_class(sv.objects_in_image, c)
            kept == objects_of_class(sv.once[t].filtered, c)
        IN /\ kept = pre_filter_with_nms(alone, t)
           /\ (Len(alone) = 1 => kept = alone)

\* C22 witness: a detection that is alone in its class was kept although its
\* box is the box of a higher-scored detection of the other class, while a
\* detection of that other class was dropped.
C22_Witness ==
  \E t \in Thresholds :
    /\ sv.once[t].called
    /\ Len(sv.once[t].filtered) < Len(sv.objects_in_image)
    /\ \E a, b \in 1..Len(sv.objects_in_image) :
         /\ sv.objects_in_image[a].category_id # sv.objects_in_image[b].category_id
         /\ sv.objects_in_image[a].bbox_voc = sv.objects_in_image[b].bbox_voc
         /\ sv.objects_in_image[a].confidence < sv.objects_in_image[b].confidence
         /\ Len(objects_of_class(sv.objects_in_image,
                                 sv.objects_in_image[a].category_id)) = 1
         /\ sv.objects_in_image[a] \in Members(sv.once[t].filtered)

\* the detections of the image are of one class
SameClass ==
  \A a, b \in 1..Len(sv.objects_in_image) :
    sv.objects_in_image[a].category_id = sv.objects_in_image[b].category_id

\* the number of detections the call with threshold t dropped
Dropped(t) == Len(sv.objects_in_image) - Len(sv.once[t].filtered)

\* C23: NMS is monotone in the threshold: for a list of same-class
\* detections and thresholds t1 < t2, the call at t2 drops no more
\* detections than the call at t1.
C23_NmsMonotone ==
  \A t1, t2 \in Thresholds :
    (SameClass /\ t1 < t2 /\ sv.once[t1].called /\ sv.once[t2].called) =>
      Dropped(t2) <= Dropped(t1)

\* C23, amended: for a list of at most three same-class detections and
\* thresholds t1 < t2, the call at t2 drops no more detections than the call
\* at t1.
C23_NmsMonotoneUpToThree ==
  \A t1, t2 \in Thresholds :
    (SameClass /\ Len(sv.objects_in_image) <= 3
       /\ t1 < t2 /\ sv.once[t1].called /\ sv.once[t2].called) =>
      Dropped(t2) <= Dropped(t1)

\* C23 witness: three same-class detections of which each threshold dropped
\* one, and not the same one.
C23_Witness ==
  \E t1, t2 \in Thresholds :
    /\ SameClass /\ Len(sv.objects_in_image) = 3
    /\ t1 < t2 /\ sv.once[t1].called /\ sv.once[t2].called
    /\ Dropped(t1) = 1 /\ Dropped(t2) = 1
    /\ Members(sv.once[t1].filtered) # Members(sv.once[t2].filtered)

====
